---- MODULE Spec2Model ----
(***************************************************************************)
(* A model of bot.py: the polling loop stream_tweets under its guard        *)
(* tweet_streamer, the registration command add_twitter_account, the       *)
(* legacy command start, and the pure function                             *)
(* remove_similar_headlines_tfidf.                                         *)
(*                                                                         *)
(* Every action is one stretch of code between two await points of the     *)
(* asyncio loop (or a whole database transaction where only its commit is  *)
(* visible to the other tasks).  Twitter and Discord are the environment:   *)
(* what they did since the bot last looked (statuses posted, a channel     *)
(* deleted, a send refused) is drawn where the code calls them.            *)
(***************************************************************************)
EXTENDS Integers, Sequences, FiniteSets, Bags, TLC

\* Bounds of the model.
MaxPosts == 3
MaxRequests == 2
\* Bounds of SpecFilter, the specification with the command start and
\* statuses that are retweets, replies or carry media.
MaxFilterPosts == 1
MaxStarts == 1
\* Bound of SpecClose, the specification in which the bot may be closed and
\* the task is scheduled fairly.
MaxClosePosts == 2
\* Bound of SpecDedupe: the length of the argument tweets.
MaxHeadlines == 3
\* Bounds of SpecEmbed: the attachments of a tweet and the variants of a video.
MaxMedia == 1
MaxVariants == 3

\* The users that exist on Twitter (user.id) and the Discord channels.
TwitterIds == {1, 2}
Channels == {1, 2}

\* Texts of statuses (tweet.full_text), as the words of the raw text, and
\* the ones the users of the model post.
Texts ==
    { <<"Team", "wins", "championship">>,
      <<"Team", "wins", "the", "trophy">>,
      <<"The">> }
PostedTexts == { <<"Team", "wins", "championship">>, <<"The">> }

\* The texts and the thresholds remove_similar_headlines_tfidf is called
\* with when it is studied on its own.
Headlines == Texts \cup { <<"championship", "parade">>, <<"parade">> }
Thresholds == { <<1, 5>>, <<2, 5>>, <<1, 2>>, <<1, 1>> }

VARIABLES
    timeline,        \* Twitter: the statuses of the timelines fetched so far; an id is an index
    accts,           \* table monitored_twitter_accounts; the row id is the index
    links,           \* table twitter_account_channels, in insertion order
    twitter_channels,\* table twitter_channels (written by the command start)
    requests,        \* the bag of add_twitter_account calls between SELECT and commit
    started,         \* number of add_twitter_account calls made so far
    pc,              \* position of the task tweet_streamer / stream_tweets
    accounts,        \* stream_tweets: the rows fetched at line 153
    account_i,       \* stream_tweets: position of the loop of line 155
    to_send,         \* stream_tweets: unique_tweets[::-1] of the current account
    tweet_i,         \* stream_tweets: position of the loop of line 179
    channel_ids,     \* stream_tweets: the rows fetched at line 184
    closed,          \* bot.is_closed()
    results,         \* history: what happened at each position of channel_ids so far
    fetch_failed,    \* history: <<account id, cursor>> of the fetches that raised in the last cycle
    bootstrap,       \* history: <<account id, status id>> of the last count=1 fetch of an account
    headlines,       \* a call of remove_similar_headlines_tfidf: its argument tweets
    similarity_threshold, \* ... and its argument similarity_threshold, as <<num, den>>
    unique_out,      \* ... and what it returned (or that it raised)
    unique_again,    \* ... and what it returned when called on that result
    payload,         \* a call of post_tweet_to_discord: its argument tweet
    embed,           \* ... and the embed it sent
    called           \* how far the call under study went

vars ==
    << timeline, accts, links, twitter_channels, requests, started, pc, accounts,
       account_i, to_send, tweet_i, channel_ids, closed, results, fetch_failed,
       bootstrap, headlines, similarity_threshold, unique_out, unique_again,
       payload, embed, called >>

\* The calls of the pure functions studied on their own.
calls ==
    << headlines, similarity_threshold, unique_out, unique_again, payload, embed,
       called >>

poller == << pc, accounts, account_i, to_send, tweet_i, channel_ids >>
history == << results, fetch_failed >>
database == << accts, links, twitter_channels >>

----------------------------------------------------------------------------
\* Helpers.

Range(s) == { s[i] : i \in DOMAIN s }

Reverse(s) == [ i \in 1..Len(s) |-> s[Len(s) + 1 - i] ]

RECURSIVE SumOver(_, _)
SumOver(S, f) ==
    IF S = {} THEN 0
    ELSE LET x == CHOOSE y \in S : TRUE
         IN  f[x] + SumOver(S \ {x}, f)

----------------------------------------------------------------------------
\* remove_similar_headlines_tfidf and the TfidfVectorizer / cosine_similarity
\* it calls.  Weights are integers: idf is kept to one decimal (scaled by 10),
\* and a cosine is compared with a threshold num/den by cross-multiplying.

\* str.lower() on one word.
Lower(w) ==
    CASE w = "Team" -> "team"
      [] w = "The" -> "the"
      [] OTHER -> w

\* stop_words='english', restricted to the words of Texts.
StopWords == {"the"}

\* full_text.lower().strip(), then the vectorizer's analyzer: the lower-cased
\* words of the text without the stop words.
Analyze(full_text) ==
    SelectSeq([ i \in 1..Len(full_text) |-> Lower(full_text[i]) ],
              LAMBDA w : w \notin StopWords)

\* 10 * ln(k), rounded.
Ln10(k) ==
    CASE k = 1 -> 0
      [] k = 2 -> 7
      [] k = 3 -> 11
      [] k = 4 -> 14
      [] k = 5 -> 16
      [] k = 6 -> 18
      [] k = 7 -> 19
      [] OTHER -> 21

Vocabulary(docs) == UNION { Range(docs[d]) : d \in DOMAIN docs }

Tf(doc, w) == Cardinality({ i \in DOMAIN doc : doc[i] = w })

Df(docs, w) == Cardinality({ d \in DOMAIN docs : w \in Range(docs[d]) })

\* smooth_idf: idf(w) = ln((1 + n) / (1 + df(w))) + 1, times 10.
Idf(docs, w) == 10 + Ln10(1 + Len(docs)) - Ln10(1 + Df(docs, w))

\* The dot product of the (not yet normalised) tf-idf rows a and b.
Dot(docs, a, b) ==
    SumOver(Vocabulary(docs),
            [ w \in Vocabulary(docs) |->
                (Tf(docs[a], w) * Idf(docs, w)) * (Tf(docs[b], w) * Idf(docs, w)) ])

\* similarity >= similarity_threshold, for rows a and b of
\* cosine_similarity(fit_transform(docs)) and the threshold num/den.
\* A row without any term is the zero vector: its cosine is 0.
SimilarityAtLeast(docs, a, b, num, den) ==
    LET ab == Dot(docs, a, b)
        aa == Dot(docs, a, a)
        bb == Dot(docs, b, b)
    IN  IF aa = 0 \/ bb = 0
        THEN num <= 0
        ELSE ab * ab * den * den >= num * num * aa * bb

\* The documents line 133 vectorizes: the accepted texts, then the current one.
TweetTexts(unique_tweets, tweet) ==
    [ i \in 1..Len(unique_tweets) |-> Analyze(unique_tweets[i].full_text) ]
        \o << Analyze(tweet.full_text) >>

\* fit_transform raises ValueError (empty vocabulary) when no document has a term.
EmptyVocabulary(unique_tweets, tweet) ==
    /\ unique_tweets # << >>
    /\ Vocabulary(TweetTexts(unique_tweets, tweet)) = {}

\* The comparison of line 137 the wrong way round: a tweet is dropped when
\* a similarity is below the threshold.
IsUniqueInverted(unique_tweets, tweet, num, den) ==
    LET docs == TweetTexts(unique_tweets, tweet)
    IN  \/ unique_tweets = << >>
        \/ \A j \in 1..Len(unique_tweets) :
             SimilarityAtLeast(docs, Len(docs), j, num, den)

\* Lines 128-139: is_unique for one tweet against the accepted ones.
IsUnique(unique_tweets, tweet, num, den) ==
    LET docs == TweetTexts(unique_tweets, tweet)
    IN  \/ unique_tweets = << >>
        \/ \A j \in 1..Len(unique_tweets) :
             ~SimilarityAtLeast(docs, Len(docs), j, num, den)

\* A loop that vectorizes and compares a tweet with every tweet before it,
\* accepted or not.
RECURSIVE DedupeAgainstSeen(_, _, _, _, _)
DedupeAgainstSeen(tweets, i, unique_tweets, num, den) ==
    IF i > Len(tweets)
    THEN [raised |-> FALSE, unique_tweets |-> unique_tweets]
    ELSE IF EmptyVocabulary(SubSeq(tweets, 1, i - 1), tweets[i])
    THEN [raised |-> TRUE, unique_tweets |-> << >>]
    ELSE DedupeAgainstSeen(tweets, i + 1,
                           IF IsUnique(SubSeq(tweets, 1, i - 1), tweets[i], num, den)
                           THEN Append(unique_tweets, tweets[i])
                           ELSE unique_tweets,
                           num, den)

\* The loop of line 126 from position i on.  The result is the accepted tweets,
\* or raised = TRUE when the vectorizer raised.
RECURSIVE DedupeFrom(_, _, _, _, _)
DedupeFrom(tweets, i, unique_tweets, num, den) ==
    IF i > Len(tweets)
    THEN [raised |-> FALSE, unique_tweets |-> unique_tweets]
    ELSE IF EmptyVocabulary(unique_tweets, tweets[i])
    THEN [raised |-> TRUE, unique_tweets |-> << >>]
    ELSE DedupeFrom(tweets, i + 1,
                    IF IsUnique(unique_tweets, tweets[i], num, den)
                    THEN Append(unique_tweets, tweets[i])
                    ELSE unique_tweets,
                    num, den)

\* A dedupe that goes through the tweets oldest first (and returns what it
\* kept newest first).
remove_similar_oldest_first(tweets, num, den) ==
    LET result == DedupeFrom(Reverse(tweets), 1, << >>, num, den)
    IN  [raised |-> result.raised, unique_tweets |-> Reverse(result.unique_tweets)]

remove_similar_headlines_tfidf(tweets, num, den) ==
    DedupeFrom(tweets, 1, << >>, num, den)

\* The tweets with the texts h, newest first.
TweetsOf(h) ==
    [ i \in 1..Len(h) |->
        [id |-> Len(h) + 1 - i, user |-> 1, full_text |-> h[i],
         flags |-> [is_retweet |-> FALSE, is_reply |-> FALSE, media |-> FALSE]] ]

\* similarity_threshold=0.4, the default stream_tweets uses.
ThresholdNum == 2
ThresholdDen == 5

----------------------------------------------------------------------------
\* Twitter: api.user_timeline.  Statuses come newest first.

StatusesOf(statuses, twitter_id) ==
    SelectSeq(Reverse(statuses), LAMBDA t : t.user = twitter_id)

\* A since_id that includes the status it names.
user_timeline_from(statuses, twitter_id, since_id) ==
    SelectSeq(StatusesOf(statuses, twitter_id), LAMBDA t : t.id >= since_id)

\* user_timeline(user_id, since_id): the statuses with a larger id.
user_timeline_since(statuses, twitter_id, since_id) ==
    SelectSeq(StatusesOf(statuses, twitter_id), LAMBDA t : t.id > since_id)

\* A first fetch that returns the whole timeline of the user.
user_timeline_all(statuses, twitter_id) == StatusesOf(statuses, twitter_id)

\* user_timeline(user_id, count=1): the most recent status, if any.
user_timeline_latest(statuses, twitter_id) ==
    IF StatusesOf(statuses, twitter_id) = << >> THEN << >>
    ELSE << Head(StatusesOf(statuses, twitter_id)) >>

\* What a status is besides its text: a retweet, a reply, with media.
Flags == [is_retweet : BOOLEAN, is_reply : BOOLEAN, media : BOOLEAN]
PlainFlags == { [is_retweet |-> FALSE, is_reply |-> FALSE, media |-> FALSE] }

\* What a user may have posted since the bot last fetched its timeline: up
\* to k statuses, each with some text and some flags.
NewPosts(k, twitter_id, flags) ==
    UNION { [1..n -> [user : {twitter_id}, full_text : PostedTexts, flags : flags]] :
            n \in 0..k }

\* Twitter gives every new status the next (larger) id.
Posted(statuses, new) ==
    statuses \o [ i \in 1..Len(new) |->
                    [id |-> Len(statuses) + i, user |-> new[i].user,
                     full_text |-> new[i].full_text, flags |-> new[i].flags] ]

----------------------------------------------------------------------------
\* The state when the bot has connected: empty tables, tweet_streamer about
\* to enter stream_tweets.

\* No call of a pure function is under study.
NoCall ==
    /\ headlines = << >>
    /\ similarity_threshold = << 2, 5 >>
    /\ unique_out = [raised |-> FALSE, unique_tweets |-> << >>]
    /\ unique_again = [raised |-> FALSE, unique_tweets |-> << >>]
    /\ payload = << >>
    /\ embed = [image |-> << >>, description |-> << >>]
    /\ called = "no"

Connected ==
    /\ timeline = << >>
    /\ accts = << >>
    /\ links = << >>
    /\ twitter_channels = << >>
    /\ requests = EmptyBag
    /\ started = 0
    /\ pc = "select_accounts"
    /\ accounts = << >>
    /\ account_i = 0
    /\ to_send = << >>
    /\ tweet_i = 0
    /\ channel_ids = << >>
    /\ closed = FALSE
    /\ results = << >>
    /\ fetch_failed = {}
    /\ bootstrap = {}

Init == Connected /\ NoCall

\* remove_similar_headlines_tfidf is about to be called with some tweets and
\* some threshold.
InitDedupe ==
    /\ Connected
    /\ headlines \in { TweetsOf(h) : h \in UNION { [1..n -> Headlines] : n \in 0..MaxHeadlines } }
    /\ similarity_threshold \in Thresholds
    /\ unique_out = [raised |-> FALSE, unique_tweets |-> << >>]
    /\ unique_again = [raised |-> FALSE, unique_tweets |-> << >>]
    /\ payload = << >>
    /\ embed = [image |-> << >>, description |-> << >>]
    /\ called = "no"

\* Lines 122-144: the call returns or raises.
Dedupe ==
    /\ called = "no"
    /\ unique_out' = remove_similar_headlines_tfidf(headlines, similarity_threshold[1],
                                                   similarity_threshold[2])
    /\ called' = "once"
    /\ UNCHANGED << timeline, database, requests, started, poller, history, closed,
                    bootstrap, headlines, similarity_threshold, unique_again,
                    payload, embed >>

\* Lines 122-144, called on what the first call returned.
DedupeAgain ==
    /\ called = "once"
    /\ ~unique_out.raised
    /\ unique_again' = remove_similar_headlines_tfidf(unique_out.unique_tweets,
                                                     similarity_threshold[1],
                                                     similarity_threshold[2])
    /\ called' = "twice"
    /\ UNCHANGED << timeline, database, requests, started, poller, history, closed,
                    bootstrap, headlines, similarity_threshold, unique_out,
                    payload, embed >>

\* A tweet as post_tweet_to_discord reads it: the media keys of
\* tweet['data']['attachments'] and the media of tweet['includes'].  A
\* variant has a url and may have a bitrate (-1 below: it has none).
Variants ==
    UNION { [1..n -> { -1, 120, 500, 800 }] : n \in 1..MaxVariants }
VariantsOf(bitrates) ==
    [ i \in DOMAIN bitrates |->
        IF bitrates[i] = -1 THEN [url |-> << "variant", i >>]
        ELSE [url |-> << "variant", i >>, bitrate |-> bitrates[i]] ]
Attachments ==
    { [type |-> type, variants |-> << >>] : type \in {"photo", "animated_gif"} }
      \cup { [type |-> "video", variants |-> VariantsOf(b)] : b \in Variants }
MediaAt(attachment, k) ==
    [type |-> attachment.type, url |-> << "media", k >>, variants |-> attachment.variants]
Payload(m) ==
    [media_keys |-> [k \in DOMAIN m |-> k], media |-> [k \in DOMAIN m |-> MediaAt(m[k], k)]]

\* list.index: the first position of x.
IndexOf(s, x) == CHOOSE i \in DOMAIN s : s[i] = x /\ \A j \in 1..(i - 1) : s[j] # x

\* variant.get('bitrate', 0).
Bitrate(variant) == IF "bitrate" \in DOMAIN variant THEN variant.bitrate ELSE 0

\* A max that replaces its candidate by a later variant of the same bitrate.
RECURSIVE MaxKeepsLast(_, _, _)
MaxKeepsLast(variants, i, best) ==
    IF i > Len(variants) THEN best
    ELSE MaxKeepsLast(variants, i + 1,
                      IF Bitrate(variants[i]) >= Bitrate(best) THEN variants[i] ELSE best)

\* Line 222, max(variants, key=...) from position i on: the candidate is
\* replaced by a variant of a larger key only.
RECURSIVE MaxFrom(_, _, _)
MaxFrom(variants, i, best) ==
    IF i > Len(variants) THEN best
    ELSE MaxFrom(variants, i + 1,
                 IF Bitrate(variants[i]) > Bitrate(best) THEN variants[i] ELSE best)

\* Line 223: f"[Video link]({best_variant['url']})".
VideoLink(url) == << "[Video link](", url, ")" >>

\* Lines 214-223: the loop over media_keys from position k on.
RECURSIVE EmbedFrom(_, _, _)
EmbedFrom(tweet, k, e) ==
    IF k > Len(tweet.media_keys) THEN e
    ELSE LET media == tweet.media[IndexOf(tweet.media_keys, tweet.media_keys[k])]
             media_url == media.url
         IN  EmbedFrom(tweet, k + 1,
               IF media.type \in {"photo", "animated_gif"}
               THEN [e EXCEPT !.image = media_url]
               ELSE IF media.type = "video"
               THEN [e EXCEPT !.description =
                       VideoLink(MaxFrom(media.variants, 2, media.variants[1]).url)]
               ELSE e)

\* Lines 207-225: the embed that is sent.
post_tweet_to_discord(tweet) ==
    EmbedFrom(tweet, 1, [image |-> << >>, description |-> << >>])

\* post_tweet_to_discord is about to be called with some tweet.
InitEmbed ==
    /\ Connected
    /\ headlines = << >>
    /\ similarity_threshold = << 2, 5 >>
    /\ unique_out = [raised |-> FALSE, unique_tweets |-> << >>]
    /\ unique_again = [raised |-> FALSE, unique_tweets |-> << >>]
    /\ \E n \in 0..MaxMedia : \E m \in [1..n -> Attachments] : payload = Payload(m)
    /\ embed = [image |-> << >>, description |-> << >>]
    /\ called = "no"

\* Lines 207-225: the call.
PostTweet ==
    /\ called = "no"
    /\ embed' = post_tweet_to_discord(payload)
    /\ called' = "once"
    /\ UNCHANGED << timeline, database, requests, started, poller, history, closed,
                    bootstrap, headlines, similarity_threshold, unique_out,
                    unique_again, payload >>

NextEmbed == PostTweet

SpecEmbed == InitEmbed /\ [][NextEmbed]_vars

NextDedupe ==
    \/ Dedupe
    \/ DedupeAgain

SpecDedupe == InitDedupe /\ [][NextDedupe]_vars

----------------------------------------------------------------------------
\* add_twitter_account, called by the command _start.  Its transaction is
\* visible to the other tasks at its commit; its SELECT reads what was
\* committed when it ran.

\* Users and channels are interchangeable, so a command names one that was
\* named before or else the least one not named yet.
NamedUsers ==
    { accts[i].twitter_id : i \in DOMAIN accts }
        \cup { r.twitter_id : r \in BagToSet(requests) }
        \cup { twitter_channels[i].twitter_account : i \in DOMAIN twitter_channels }
NamedChannels ==
    { links[i].discord_channel_id : i \in DOMAIN links }
        \cup { r.channel_id : r \in BagToSet(requests) }
        \cup { twitter_channels[i].channel_id : i \in DOMAIN twitter_channels }
KnownOrNext(x, named) == \A y \in 1..(x - 1) : y \in named

\* Lines 84-94: look the user up, SELECT the account row of user.id.
AddSelect(twitter_id, channel_id) ==
    /\ started < MaxRequests
    /\ KnownOrNext(twitter_id, NamedUsers)
    /\ KnownOrNext(channel_id, NamedChannels)
    /\ started' = started + 1
    /\ LET rows == { i \in DOMAIN accts : accts[i].twitter_id = twitter_id }
           account_id == IF rows = {} THEN 0
                         ELSE CHOOSE i \in rows : \A j \in rows : i <= j
       IN  requests' = requests (+) SetToBag({[twitter_id |-> twitter_id,
                                                channel_id |-> channel_id,
                                                account_id |-> account_id]})
    /\ UNCHANGED << timeline, database, poller, history, closed, bootstrap, calls >>

\* Lines 96-104 as committed: the account row this request inserts, if any.
InsertAccount(rows, request) ==
    IF request.account_id # 0
    THEN rows
    ELSE Append(rows, [twitter_id |-> request.twitter_id, last_tweet_id |-> 0])

\* Lines 107-110 as committed: the link row this request inserts.
InsertLink(rows, account_id, channel_id) ==
    Append(rows, [twitter_account_id |-> account_id, discord_channel_id |-> channel_id])

\* Lines 96-111: INSERT the account if the SELECT found none, INSERT the
\* link, commit.
AddCommit(request) ==
    /\ BagIn(request, requests)
    /\ LET account_id == IF request.account_id # 0 THEN request.account_id
                         ELSE Len(accts) + 1
       IN  /\ accts' = InsertAccount(accts, request)
           /\ links' = InsertLink(links, account_id, request.channel_id)
    /\ requests' = requests (-) SetToBag({request})
    /\ UNCHANGED << timeline, twitter_channels, started, poller, history, closed,
                    bootstrap, calls >>

Commit == \E request \in BagToSet(requests) : AddCommit(request)

----------------------------------------------------------------------------
\* The command start: it stores the filter settings of a channel for a
\* Twitter account in twitter_channels.  A user is named by its id here (the
\* screen name and the id of a user determine each other).

\* Lines 62-67: INSERT INTO twitter_channels, commit.
add_twitter_channel(rows, twitter_account, channel_id, retweets, replies, media_only, threshold) ==
    Append(rows, [twitter_account |-> twitter_account, channel_id |-> channel_id,
                  retweets |-> retweets, replies |-> replies,
                  media_only |-> media_only, similarity_threshold |-> threshold])

\* Lines 76-79; similarity_threshold is left at its default, 0.5.
Start(twitter_account, channel_id, retweets, replies, media_only) ==
    /\ Len(twitter_channels) < MaxStarts
    /\ KnownOrNext(twitter_account, NamedUsers)
    /\ KnownOrNext(channel_id, NamedChannels)
    /\ twitter_channels' = add_twitter_channel(twitter_channels, twitter_account,
                                               channel_id, retweets, replies,
                                               media_only, << 1, 2 >>)
    /\ UNCHANGED << timeline, accts, links, requests, started, poller, history,
                    closed, bootstrap, calls >>

----------------------------------------------------------------------------
\* stream_tweets, under the guard of tweet_streamer.

account == accounts[account_i]
tweet == to_send[tweet_i]

\* The for loop of line 155 moves on, or ends: the cycle sleeps (line 205)
\* and the while loop of line 149 starts the next one.
NextAccount ==
    /\ IF account_i < Len(accounts)
       THEN pc' = "fetch" /\ account_i' = account_i + 1 /\ accounts' = accounts
       ELSE pc' = "select_accounts" /\ account_i' = 0 /\ accounts' = << >>
    /\ to_send' = << >>
    /\ tweet_i' = 0
    /\ channel_ids' = << >>
    /\ results' = << >>

\* Lines 150-153: SELECT * FROM monitored_twitter_accounts.
SelectAccounts ==
    /\ pc = "select_accounts"
    /\ accts # << >>
    /\ accounts' = [ i \in DOMAIN accts |->
                       [id |-> i, twitter_id |-> accts[i].twitter_id,
                        last_tweet_id |-> accts[i].last_tweet_id] ]
    /\ pc' = "fetch"
    /\ account_i' = 1
    /\ fetch_failed' = {}
    /\ UNCHANGED << timeline, database, requests, started, to_send, tweet_i,
                    channel_ids, results, closed, bootstrap, calls >>

\* A fetch that forgets the cursor and returns the whole timeline.
WholeTimeline(statuses) == StatusesOf(statuses, account.twitter_id)

\* Lines 160-173: the statuses the fetch of the current account returns.
FetchedTweets(statuses) ==
    IF account.last_tweet_id # 0
    THEN user_timeline_since(statuses, account.twitter_id, account.last_tweet_id)
    ELSE user_timeline_latest(statuses, account.twitter_id)

\* The accepted tweets sent in the order of the fetch, newest first.
FetchOrder(unique_tweets) == unique_tweets

\* Line 179: the order in which the accepted tweets are sent.
SendOrder(unique_tweets) == Reverse(unique_tweets)

\* Lines 156-176 when user_timeline returns: fetch, dedupe.  new are the
\* statuses the user posted since the bot last fetched its timeline (ids
\* are compared within one timeline only).  A ValueError of
\* the vectorizer is no TweepError: it leaves stream_tweets (line 233).
FetchReturns(new) ==
    /\ pc = "fetch"
    /\ timeline' = Posted(timeline, new)
    /\ bootstrap' =
         IF account.last_tweet_id = 0 /\ FetchedTweets(timeline') # << >>
         THEN { b \in bootstrap : b[1] # account.id }
                 \cup { << account.id, Head(FetchedTweets(timeline')).id >> }
         ELSE bootstrap
    /\ LET result == remove_similar_headlines_tfidf(FetchedTweets(timeline'),
                                                    ThresholdNum, ThresholdDen)
       IN  IF result.raised
           THEN /\ pc' = "guard_sleep"
                /\ UNCHANGED << accounts, account_i, to_send, tweet_i, channel_ids,
                                results >>
           ELSE IF result.unique_tweets = << >>
           THEN NextAccount
           ELSE /\ pc' = "load_channels"
                /\ to_send' = SendOrder(result.unique_tweets)
                /\ tweet_i' = 1
                /\ UNCHANGED << accounts, account_i, channel_ids, results >>
    /\ UNCHANGED << database, requests, started, fetch_failed, closed, calls >>

\* The statuses are plain ones: stream_tweets reads none of their flags.
Fetch ==
    /\ pc = "fetch"
    /\ \E new \in NewPosts(MaxPosts - Len(timeline), account.twitter_id, PlainFlags) :
         FetchReturns(new)

\* The same with retweets, replies and media among the new statuses.
FetchFlagged ==
    /\ pc = "fetch"
    /\ \E new \in NewPosts(MaxFilterPosts - Len(timeline), account.twitter_id, Flags) :
         FetchReturns(new)

\* The same within the bound of SpecClose.
FetchClose ==
    /\ pc = "fetch"
    /\ \E new \in NewPosts(MaxClosePosts - Len(timeline), account.twitter_id, PlainFlags) :
         FetchReturns(new)

\* A TweepError that is not handled in the loop and leaves stream_tweets.
TweepErrorEscapes ==
    /\ pc' = "guard_sleep"
    /\ UNCHANGED << accounts, account_i, to_send, tweet_i, channel_ids, results >>

\* Lines 200-201: what the handler of tweepy.TweepError does next.
AfterTweepError == NextAccount

\* Lines 159-173, 200-201: user_timeline raises tweepy.TweepError (a rate
\* limit or any other API error); it is printed and the loop moves on.
FetchError ==
    /\ pc = "fetch"
    /\ AfterTweepError
    /\ fetch_failed' = fetch_failed \cup { << account.id, accts[account.id].last_tweet_id >> }
    /\ UNCHANGED << timeline, database, requests, started, closed, bootstrap, calls >>

\* Lines 180-184: SELECT the channels linked to the account, for one tweet.
LoadChannels ==
    /\ pc = "load_channels"
    /\ LET rows == SelectSeq(links, LAMBDA l : l.twitter_account_id = account.id)
       IN  /\ channel_ids' = [ i \in DOMAIN rows |-> rows[i].discord_channel_id ]
           /\ pc' = IF rows = << >> THEN "update" ELSE "send"
    /\ results' = << >>
    /\ UNCHANGED << timeline, database, requests, started, accounts, account_i,
                    to_send, tweet_i, fetch_failed, closed, bootstrap, calls >>

\* The position of the loop of line 186.
channel_i == Len(results) + 1

\* The for loop of line 186 moves on, or ends and the cursor is written.
NextChannel ==
    pc' = IF channel_i < Len(channel_ids) THEN "send" ELSE "update"

\* Lines 187-188: bot.get_channel returns None (the channel was deleted),
\* the channel is skipped.
SkipAbsent ==
    /\ pc = "send"
    /\ NextChannel
    /\ results' = Append(results, "absent")
    /\ UNCHANGED << timeline, database, requests, started, accounts, account_i,
                    to_send, tweet_i, channel_ids, fetch_failed, closed, bootstrap,
                    calls >>

\* Lines 187-191: channel.send succeeds.
SendOk ==
    /\ pc = "send"
    /\ NextChannel
    /\ results' = Append(results, "sent")
    /\ UNCHANGED << timeline, database, requests, started, accounts, account_i,
                    to_send, tweet_i, channel_ids, fetch_failed, closed, bootstrap,
                    calls >>

\* Where an exception of channel.send goes: it is no tweepy.TweepError, so
\* it leaves the loops and stream_tweets and is caught at line 233.
AfterSendError == pc' = "guard_sleep"

\* Lines 187-191: channel.send raises (discord.HTTPException, Forbidden, ...).
SendFails ==
    /\ pc = "send"
    /\ AfterSendError
    /\ results' = Append(results, "failed")
    /\ UNCHANGED << timeline, database, requests, started, accounts, account_i,
                    to_send, tweet_i, channel_ids, fetch_failed, closed, bootstrap,
                    calls >>

\* A cursor written per batch: the id of the newest tweet of the batch.
BatchCursor == to_send[Len(to_send)].id

\* Lines 194-196: the value UPDATE writes to last_tweet_id.
NewCursor == tweet.id

\* Lines 194-198: UPDATE last_tweet_id of the account, commit; then the loop
\* of line 179 moves on.
UpdateCursor ==
    /\ pc = "update"
    /\ accts' = [accts EXCEPT ![account.id].last_tweet_id = NewCursor]
    /\ IF tweet_i < Len(to_send)
       THEN /\ pc' = "load_channels"
            /\ tweet_i' = tweet_i + 1
            /\ channel_ids' = << >>
            /\ results' = << >>
            /\ UNCHANGED << accounts, account_i, to_send >>
       ELSE NextAccount
    /\ UNCHANGED << timeline, links, twitter_channels, requests, started,
                    fetch_failed, closed, bootstrap, calls >>

\* A guard without its loop: the task ends after the first escaped error.
StreamsOnce == FALSE

\* Line 230: the condition of the while loop of tweet_streamer.
KeepsStreaming == ~closed

\* Lines 233-235, then 230: the guard prints the error and sleeps; its while
\* loop calls stream_tweets again unless the bot is closed, and then the
\* task ends.
GuardSleep ==
    /\ pc = "guard_sleep"
    /\ pc' = IF KeepsStreaming THEN "select_accounts" ELSE "done"
    /\ accounts' = << >>
    /\ account_i' = 0
    /\ to_send' = << >>
    /\ tweet_i' = 0
    /\ channel_ids' = << >>
    /\ results' = << >>
    /\ UNCHANGED << timeline, database, requests, started, fetch_failed, closed,
                    bootstrap, calls >>

\* The bot is closed from outside (Client.close()): is_closed() turns true.
\* Nothing in stream_tweets reads it.
Close ==
    /\ ~closed
    /\ closed' = TRUE
    /\ UNCHANGED << timeline, database, requests, started, poller, history,
                    bootstrap, calls >>

----------------------------------------------------------------------------

Next ==
    \/ \E u \in TwitterIds, c \in Channels : AddSelect(u, c)
    \/ Commit
    \/ SelectAccounts
    \/ Fetch
    \/ FetchError
    \/ LoadChannels
    \/ SkipAbsent
    \/ SendOk
    \/ SendFails
    \/ UpdateCursor
    \/ GuardSleep

Spec == Init /\ [][Next]_vars

\* The command start writes a table nothing else reads or writes, so Spec
\* leaves it out; SpecFilter has it, and statuses of every kind.
NextFilter ==
    \/ \E u \in TwitterIds, c \in Channels, retweets, replies, media_only \in BOOLEAN :
         Start(u, c, retweets, replies, media_only)
    \/ \E u \in TwitterIds, c \in Channels : AddSelect(u, c)
    \/ Commit
    \/ SelectAccounts
    \/ FetchFlagged
    \/ FetchError
    \/ LoadChannels
    \/ SkipAbsent
    \/ SendOk
    \/ SendFails
    \/ UpdateCursor
    \/ GuardSleep

SpecFilter == Init /\ [][NextFilter]_vars

\* The bot may be closed while the task runs.
NextClose ==
    \/ \E u \in TwitterIds, c \in Channels : AddSelect(u, c)
    \/ Commit
    \/ SelectAccounts
    \/ FetchClose
    \/ FetchError
    \/ LoadChannels
    \/ SkipAbsent
    \/ SendOk
    \/ SendFails
    \/ UpdateCursor
    \/ GuardSleep
    \/ Close

\* A step of the task tweet_streamer.
Poll ==
    \/ SelectAccounts
    \/ FetchClose
    \/ FetchError
    \/ LoadChannels
    \/ SkipAbsent
    \/ SendOk
    \/ SendFails
    \/ UpdateCursor
    \/ GuardSleep

\* The event loop resumes the task when what it awaits is done, and every
\* call it awaits (a query, a send, a sleep) returns or raises: the task
\* does not stay at an await for ever.  Which way a call ends is free.
SpecClose == Init /\ [][NextClose]_vars /\ WF_vars(Poll)

----------------------------------------------------------------------------
\* Properties.

\* The poller is inside the batch of the current account.
InBatch == pc \in {"load_channels", "send", "update"}

\* The guard caught an exception of channel.send for the current tweet.
SendFailed ==
    /\ pc = "guard_sleep"
    /\ results # << >>
    /\ results[Len(results)] = "failed"

Cursor(a) == accts[a].last_tweet_id

\* C1: the stored cursor of an account never regresses, and every write of
\* it (line 194) replaces it with a strictly larger status id, whatever
\* failed or restarted before.
CursorNeverRegresses ==
    [][ /\ \A a \in DOMAIN accts : accts'[a].last_tweet_id >= Cursor(a)
        /\ UpdateCursor => accts'[account.id].last_tweet_id > Cursor(account.id)
      ]_vars

\* C1's case: in a batch fetched from a set cursor, the cursor was replaced.
CursorReplaced ==
    /\ InBatch
    /\ account.last_tweet_id # 0
    /\ Cursor(account.id) > account.last_tweet_id

\* C2 as claimed: when a send of a fanout raised, every other position of
\* channel_ids still got its turn (sent, or skipped as absent).
SiblingsStillAttempted ==
    SendFailed => Len(results) = Len(channel_ids)

\* C3 as claimed: when a send of the fanout of a tweet raised, the cursor of
\* the account is advanced to that tweet when the cycle ends.
CursorAdvancedDespiteFailure ==
    SendFailed => Cursor(account.id) = tweet.id

\* C4 as claimed: when a send raised in the batch of one account, every
\* account of the cycle's list has been fetched when the cycle ends.
EveryAccountAttempted ==
    SendFailed => account_i = Len(accounts)

Passes(row, status) ==
    /\ status.flags.is_retweet => row.retweets
    /\ status.flags.is_reply => row.replies
    /\ row.media_only => status.flags.media

\* C6 as claimed: a tweet is never sent to a channel whose settings for the
\* account, stored by the command start, reject it.
FilterRespected ==
    \A k \in DOMAIN results :
      results[k] = "sent" =>
        \A i \in DOMAIN twitter_channels :
          ( /\ twitter_channels[i].twitter_account = account.twitter_id
            /\ twitter_channels[i].channel_id = channel_ids[k] )
            => Passes(twitter_channels[i], tweet)

\* C7: the cursor is written only by line 194, to the id of the tweet whose
\* fanout went through every loaded channel id (sent or absent); inside a
\* batch, and after a failure in it, the stored cursor is the id of the tweet
\* before the current one, or the fetched cursor at the first tweet.
CursorAfterFanout ==
    /\ [](pc = "update" =>
            /\ Len(results) = Len(channel_ids)
            /\ \A k \in DOMAIN results : results[k] \in {"sent", "absent"})
    /\ []((InBatch \/ SendFailed) =>
            Cursor(account.id) = IF tweet_i = 1 THEN account.last_tweet_id
                                 ELSE to_send[tweet_i - 1].id)
    /\ [][ \A a \in DOMAIN accts :
             accts'[a].last_tweet_id # Cursor(a) =>
               /\ pc = "update"
               /\ a = account.id
               /\ accts'[a].last_tweet_id = tweet.id
               /\ tweet_i' = 0 \/ tweet_i' = tweet_i + 1
         ]_vars

\* C7's case: a send raised at the second tweet of a batch, after a channel
\* was skipped as absent.
FailureMidBatch ==
    /\ SendFailed
    /\ tweet_i = 2
    /\ results = << "absent", "failed" >>

\* C8: every tweet that is being sent or is still to be sent for an account
\* has a larger id than the account's stored cursor: a tweet at or below the
\* cursor is never sent again.
NoResendBelowCursor ==
    InBatch => \A k \in tweet_i..Len(to_send) : to_send[k].id > Cursor(account.id)

\* C8's case: a tweet is sent in a batch fetched from a set cursor, while
\* the user has older statuses.
SendingAfterCheckpoint ==
    /\ pc = "send"
    /\ account.last_tweet_id # 0
    /\ results # << >>
    /\ results[Len(results)] = "sent"

\* C9: the fetch returns the statuses newest first, and the tweets of a batch
\* are sent and checkpointed in increasing id order, each above the cursor
\* written before it.
IncreasingIdOrder ==
    /\ \A u \in TwitterIds :
         LET fetched == user_timeline_since(timeline, u, 0)
         IN  \A k \in 1..(Len(fetched) - 1) : fetched[k].id > fetched[k + 1].id
    /\ \A k \in 1..(Len(to_send) - 1) : to_send[k].id < to_send[k + 1].id
    /\ InBatch => Cursor(account.id) < tweet.id

\* C9's case: the second tweet of a batch is being sent.
SecondOfBatch ==
    /\ pc = "send"
    /\ tweet_i = 2

\* C10 as claimed: no two rows of twitter_account_channels link the same
\* account to the same channel, and no channel is sent a tweet twice in one
\* fanout.
UniqueSubscription ==
    /\ \A i, j \in DOMAIN links : links[i] = links[j] => i = j
    /\ \A i, j \in DOMAIN results :
         (results[i] = "sent" /\ results[j] = "sent" /\ channel_ids[i] = channel_ids[j])
            => i = j

\* The id of the most recent status of a user.
NewestId(twitter_id) == Head(StatusesOf(timeline, twitter_id)).id

\* C11: a batch fetched for an account without a cursor is the single most
\* recent status of the user; when its fanout is through, the cursor is set
\* to it and the batch is over; and no status older than the one a count=1
\* fetch of the account returned is ever sent for the account, in that cycle
\* or a later one.
BootstrapLatestOnly ==
    /\ []((InBatch /\ account.last_tweet_id = 0) =>
            /\ Len(to_send) = 1
            /\ to_send[1].id = NewestId(account.twitter_id))
    /\ []( InBatch =>
            \A b \in bootstrap : \A k \in DOMAIN to_send :
              b[1] = account.id => to_send[k].id >= b[2])
    /\ [][ (UpdateCursor /\ account.last_tweet_id = 0) =>
             /\ accts'[account.id].last_tweet_id = NewestId(account.twitter_id)
             /\ pc' \in {"fetch", "select_accounts"}
         ]_vars

\* C11's case: a tweet is being sent in a later cycle for an account whose
\* first fetch passed over an older status of the user.
OlderStatusPassedOver ==
    /\ pc = "send"
    /\ account.last_tweet_id # 0
    /\ \E b \in bootstrap :
         /\ b[1] = account.id
         /\ \E i \in DOMAIN timeline :
              timeline[i].user = account.twitter_id /\ timeline[i].id < b[2]

\* C12: the task ends only when the bot is closed; and when an error escaped
\* stream_tweets while the bot is not closed, the guard resets the loop and
\* a new cycle begins (or the bot is closed meanwhile).
PollingNeverEnds ==
    /\ [](pc = "done" => closed)
    /\ [][ (GuardSleep /\ ~closed) => (pc' = "select_accounts" /\ accounts' = << >>) ]_vars
    /\ ((pc = "guard_sleep" /\ ~closed) ~> (pc = "select_accounts" \/ closed))

\* C12's case: a count=1 batch was given up (its cursor was never written)
\* and the guard has started a new cycle.
RestartedAfterError ==
    /\ pc = "select_accounts"
    /\ ~closed
    /\ \E b \in bootstrap : Cursor(b[1]) = 0

\* C18 as claimed: once the bot is closed, the poller goes on to no further
\* account and to no further cycle (the fanout and the batch in progress
\* may go on).
ShutdownObserved ==
    [][ closed => ~(pc' = "fetch" /\ account_i' # account_i) ]_vars

\* C19 as claimed: while the bot is not closed, every account of the table
\* gets its fetch again and again, whatever fails for the other accounts.
OtherAccountsProgress ==
    \A a \in 1..MaxRequests :
      (a \in DOMAIN accts /\ ~closed) ~> (closed \/ (pc = "fetch" /\ account_i = a))

\* C17 as claimed: whatever requests were made, and however their database
\* steps interleave, monitored_twitter_accounts holds one row per Twitter
\* user, so that all the links made for a user name the same account id.
RegistrationIdempotent ==
    \A i, j \in DOMAIN accts : accts[i].twitter_id = accts[j].twitter_id => i = j

\* C20: the fetch of an account reads the stored cursor and returns only
\* statuses above it; dedupe keeps the newest fetched status, which is sent
\* last; so when the last UPDATE of a batch is done the cursor is the id of
\* the newest status fetched, at or above every status dedupe dropped, and
\* no later fetch returns one of those.
BatchEndsAtNewest ==
    /\ [](pc = "fetch" => account.last_tweet_id = Cursor(account.id))
    /\ [](InBatch =>
            /\ to_send[Len(to_send)].id = Head(FetchedTweets(timeline)).id
            /\ \A k \in DOMAIN FetchedTweets(timeline) :
                 /\ FetchedTweets(timeline)[k].id > account.last_tweet_id
                 /\ FetchedTweets(timeline)[k].id <= to_send[Len(to_send)].id)
    /\ [][ (UpdateCursor /\ tweet_i = Len(to_send)) =>
             accts'[account.id].last_tweet_id = Head(FetchedTweets(timeline)).id ]_vars

\* C20's case: the last UPDATE of a batch is due, and dedupe dropped one of
\* the statuses fetched.
BatchWithDroppedDone ==
    /\ pc = "update"
    /\ tweet_i = Len(to_send)
    /\ Len(FetchedTweets(timeline)) > Len(to_send)

\* The ids of the tweets of a sequence, and threshold t1 below t2.
Ids(tweets) == { tweets[i].id : i \in DOMAIN tweets }
Below(t1, t2) == t1[1] * t2[2] < t2[1] * t1[2]
Kept(tweets, t) == remove_similar_headlines_tfidf(tweets, t[1], t[2])

\* C13 as claimed: for thresholds t1 < t2, what the function accepts of the
\* argument at t1 is among what it accepts at t2.
ThresholdMonotone ==
    \A t1, t2 \in Thresholds :
      (Below(t1, t2) /\ ~Kept(headlines, t1).raised) =>
         Ids(Kept(headlines, t1).unique_tweets) \subseteq Ids(Kept(headlines, t2).unique_tweets)

\* The argument as accepted tweets followed by the tweet that is decided.
Accepted == SubSeq(headlines, 1, Len(headlines) - 1)
Decided == headlines[Len(headlines)]

\* C13 amended: against the same accepted tweets, a tweet that is accepted
\* at t1 is accepted at every t2 above t1; so for at most two tweets the
\* accepted sets are nested.
DecisionMonotone ==
    /\ Len(headlines) >= 1 =>
         \A t1, t2 \in Thresholds :
           (Below(t1, t2) /\ IsUnique(Accepted, Decided, t1[1], t1[2]))
              => IsUnique(Accepted, Decided, t2[1], t2[2])
    /\ Len(headlines) <= 2 => ThresholdMonotone

\* C13's case: the call returned, and the last tweet of the argument is
\* accepted against the ones before it at one threshold and not at a lower.
DecisionDiffers ==
    /\ called = "once"
    /\ Len(headlines) >= 2
    /\ \E t1, t2 \in Thresholds :
         /\ Below(t1, t2)
         /\ ~IsUnique(Accepted, Decided, t1[1], t1[2])
         /\ IsUnique(Accepted, Decided, t2[1], t2[2])

\* C14: called on what it returned, with the same threshold, the function
\* returns it unchanged (and does not raise): every accepted tweet meets, in
\* the second call, the accepted tweets and the vector space it met in the
\* first.
DedupeIdempotent ==
    called = "twice" =>
       /\ ~unique_again.raised
       /\ unique_again.unique_tweets = unique_out.unique_tweets

\* C14's case: the first call dropped a tweet and kept two or more, and the
\* second call has returned.
SecondCallAfterDrop ==
    /\ called = "twice"
    /\ Len(unique_out.unique_tweets) >= 2
    /\ Len(unique_out.unique_tweets) < Len(headlines)

\* The tweets at the positions K, in their order.
SubseqAt(tweets, K) ==
    LET F[i \in 0..Len(tweets)] ==
          IF i = 0 THEN << >>
          ELSE IF i \in K THEN Append(F[i - 1], tweets[i]) ELSE F[i - 1]
    IN  F[Len(tweets)]

\* The greedy rule: a position is kept exactly when the tweet there has,
\* to every tweet kept before it, a similarity below the threshold.
GreedyRule(tweets, K, num, den) ==
    \A i \in 1..Len(tweets) :
      i \in K <=>
        LET before == SubseqAt(SubSeq(tweets, 1, i - 1), K)
            docs == TweetTexts(before, tweets[i])
        IN  \A j \in 1..Len(before) : ~SimilarityAtLeast(docs, Len(docs), j, num, den)

\* C16 as claimed: the call returns, and what it returns is the subsequence
\* of its argument that the greedy rule defines.
GreedySubsequence ==
    called = "once" =>
       /\ ~unique_out.raised
       /\ \E K \in SUBSET (1..Len(headlines)) :
            /\ GreedyRule(headlines, K, similarity_threshold[1], similarity_threshold[2])
            /\ unique_out.unique_tweets = SubseqAt(headlines, K)

\* The last attachment of the tweet whose type is among types, or 0.
LastOf(types) ==
    LET at == { k \in DOMAIN payload.media : payload.media[k].type \in types }
    IN  IF at = {} THEN 0 ELSE CHOOSE k \in at : \A l \in at : l <= k

\* Variant i is the first of the variants with the largest bitrate, a
\* variant without a bitrate counting as bitrate 0.
FirstOfLargest(variants, i) ==
    /\ \A j \in DOMAIN variants : Bitrate(variants[j]) <= Bitrate(variants[i])
    /\ \A j \in 1..(i - 1) : Bitrate(variants[j]) < Bitrate(variants[i])

\* C15: the embed that is sent links, for a video attachment, the url of
\* the first of its variants with the largest bitrate, and has, for a photo
\* or gif attachment, the url of the attachment as its image (with several
\* attachments of a kind, the last one's); without such an attachment it
\* has no link, no image.
BestVariantChosen ==
    called = "once" =>
       /\ IF LastOf({"video"}) = 0 THEN embed.description = << >>
          ELSE \E i \in DOMAIN payload.media[LastOf({"video"})].variants :
                 /\ FirstOfLargest(payload.media[LastOf({"video"})].variants, i)
                 /\ embed.description =
                      VideoLink(payload.media[LastOf({"video"})].variants[i].url)
       /\ IF LastOf({"photo", "animated_gif"}) = 0 THEN embed.image = << >>
          ELSE embed.image = payload.media[LastOf({"photo", "animated_gif"})].url

\* C15's case: the embed was sent for a tweet with a video, two of whose
\* variants share the largest bitrate, after a variant without a bitrate.
VideoWithTie ==
    /\ called = "once"
    /\ Len(payload.media) = 1
    /\ payload.media[1].type = "video"
    /\ Len(payload.media[1].variants) = 3
    /\ "bitrate" \notin DOMAIN payload.media[1].variants[1]
    /\ Bitrate(payload.media[1].variants[2]) = 800
    /\ Bitrate(payload.media[1].variants[3]) = 800

====
